---- MODULE Spec2Model ----
(***************************************************************************)
(* rtodo: a terminal task tracker (src/src/main.rs).  The model follows    *)
(* struct App: the task list, the table selection, the application mode,   *)
(* the form, the sort mode, the id counter, the edit marker, and the file  *)
(* todos.json.  One action per key handled by App::run.                    *)
(*                                                                         *)
(* Text is a string.  A calendar date is a triple <<year, month, day>>.    *)
(* Option<T> is <<>> (None) or <<x>> (Some(x)).                            *)
(* Indices are 0-based as in the source; items[i] of the source is         *)
(* items[i + 1] here.                                                      *)
(***************************************************************************)
EXTENDS Integers, Sequences, FiniteSets, TLC

\* ------------------------------------------------------------------ bounds

\* A behaviour explores one scenario, fixed in Init: the inputs offered to
\* the program (the texts typed, the days the clock reports, the outcomes of
\* a write, the number of tasks created).  The program's code is the same in
\* every scenario.
\*   "target"  : two target dates are typed, one of them in two spellings
\*   "created" : the clock reports two days
\*   "text"    : a title and a description are typed
\*   "disk"    : a write of todos.json may fail
\* A fifth scenario, "sort", belongs to SortSpec below: the program starts
\* over a file of two tasks and a third is created.
Scenarios == { "target", "created", "text", "disk" }

\* Submit in AddTask mode is explored while next_id is at most this.
MaxId == 2

MaxIdText == 1

\* The same bound in the scenario "sort", which starts from two tasks.
MaxIdSort == 3

MaxIdOf(sc) ==
    IF sc = "text" THEN MaxIdText
    ELSE IF sc = "sort" THEN MaxIdSort
    ELSE MaxId

\* The texts the user types.  A character key is explored when the field it
\* lands in stays a prefix of one of the field's sample texts; Backspace is
\* never restricted.
TitleSamples(sc) == IF sc = "text" THEN { "a" } ELSE { }

DescSamples(sc) == IF sc = "text" THEN { "b" } ELSE { }

DateSamples(sc) ==
    IF sc = "target" THEN { "0001-01-01", "0001-01-02", "0001-01-1" }
    ELSE { "0001-01-01" }

\* The days Local::now() may report.
Days(sc) ==
    IF sc = "created" THEN { <<2025, 1, 1>>, <<2025, 1, 2>> }
    ELSE IF sc = "sort" THEN { <<2025, 1, 2>> }
    ELSE { <<2025, 1, 1>> }

\* The outcomes of fs::write: written; failed before the file was touched;
\* failed after the file was truncated.
WriteResults(sc) == IF sc = "disk" THEN { "ok", "failed", "torn" } ELSE { "ok" }

\* ------------------------------------------------------------------ Option

None == <<>>

Some(x) == <<x>>

IsSome(o) == o # <<>>

Unwrap(o) == o[1]

\* ------------------------------------------------------------------ dates

DigitChars == "0123456789"

Char(s, i) == SubSeq(s, i, i)

IsDigit(c) == \E i \in 1..10 : Char(DigitChars, i) = c

DigitVal(c) == (CHOOSE i \in 1..10 : Char(DigitChars, i) = c) - 1

\* Derived Ord of NaiveDate: year, then month, then day.
DateLess(a, b) ==
    \/ a[1] < b[1]
    \/ a[1] = b[1] /\ a[2] < b[2]
    \/ a[1] = b[1] /\ a[2] = b[2] /\ a[3] < b[3]

IsLeap(y) == (y % 4 = 0 /\ y % 100 # 0) \/ y % 400 = 0

DaysInMonth(y, m) ==
    IF m = 2 THEN (IF IsLeap(y) THEN 29 ELSE 28)
    ELSE IF m \in {4, 6, 9, 11} THEN 30 ELSE 31

\* The number of leading digits of s, at most max of them.
RECURSIVE DigitRun(_, _)
DigitRun(s, max) ==
    IF max = 0 \/ s = "" \/ ~IsDigit(Head(s)) THEN 0
    ELSE 1 + DigitRun(Tail(s), max - 1)

RECURSIVE NumVal(_)
NumVal(s) ==
    IF s = "" THEN 0
    ELSE 10 * NumVal(SubSeq(s, 1, Len(s) - 1)) + DigitVal(Char(s, Len(s)))

Drop(s, n) == SubSeq(s, n + 1, Len(s))

\* NaiveDate::parse_from_str(text, "%Y-%m-%d"): a year of one to four digits
\* (any number of digits after a sign), '-', a month of one or two digits,
\* '-', a day of one or two digits, and nothing after it; then the date
\* must exist.  Some(date) or None.
ParseDate(text) ==
    LET signed == text # "" /\ Head(text) \in {"-", "+"}
        neg    == text # "" /\ Head(text) = "-"
        s0     == IF signed THEN Tail(text) ELSE text
        ny     == DigitRun(s0, IF signed THEN Len(s0) ELSE 4)
        yabs   == NumVal(SubSeq(s0, 1, ny))
        y      == IF neg THEN 0 - yabs ELSE yabs
        s1     == Drop(s0, ny)
        s2     == IF s1 # "" THEN Tail(s1) ELSE ""
        nm     == DigitRun(s2, 2)
        m      == NumVal(SubSeq(s2, 1, nm))
        s3     == Drop(s2, nm)
        s4     == IF s3 # "" THEN Tail(s3) ELSE ""
        nd     == DigitRun(s4, 2)
        d      == NumVal(SubSeq(s4, 1, nd))
        rest   == Drop(s4, nd)
    IN  IF /\ ny >= 1
           /\ s1 # "" /\ Head(s1) = "-"
           /\ nm >= 1
           /\ s3 # "" /\ Head(s3) = "-"
           /\ nd >= 1
           /\ rest = ""
           /\ m \in 1..12
           /\ d >= 1 /\ d <= DaysInMonth(y, m)
        THEN Some(<<y, m, d>>)
        ELSE None

\* n written in decimal, zero-padded on the left to at least w digits.
RECURSIVE Pad(_, _)
Pad(n, w) ==
    IF w <= 1 /\ n < 10 THEN Char(DigitChars, n + 1)
    ELSE Pad(n \div 10, w - 1) \o Char(DigitChars, (n % 10) + 1)

\* date.format("%Y-%m-%d"): four-digit year (signed, outside 0..9999),
\* two-digit month, two-digit day.
FormatDate(date) ==
    LET y  == date[1]
        ys == IF y >= 0 /\ y <= 9999 THEN Pad(y, 4)
              ELSE IF y < 0 THEN "-" \o Pad(0 - y, 4)
              ELSE "+" \o Pad(y, 4)
    IN  ys \o "-" \o Pad(date[2], 2) \o "-" \o Pad(date[3], 2)

\* The two conversions, tabulated over the texts and dates the scenarios can
\* produce, so that each is computed once.
Prefixes(S) == { SubSeq(t, 1, n) : <<t, n>> \in { <<t, n>> \in S \X (0..11) : n <= Len(t) } }

TypedDateTexts == Prefixes(UNION { DateSamples(sc) : sc \in Scenarios })

KnownDates ==
    { Unwrap(ParseDate(t)) : t \in { u \in TypedDateTexts : IsSome(ParseDate(u)) } }
        \cup UNION { Days(sc) : sc \in Scenarios }

KnownTexts == TypedDateTexts \cup Prefixes({ FormatDate(d) : d \in KnownDates })

ParseTable == [ t \in KnownTexts |-> ParseDate(t) ]

FormatTable == [ d \in KnownDates |-> FormatDate(d) ]

parse_from_str(text) == ParseTable[text]

format(date) == FormatTable[date]

\* ------------------------------------------------------------------ tasks

\* TodoItem::new: created today, not completed.
NewItem(id, title, description, target_date, today) ==
    [ id           |-> id,
      title        |-> title,
      description  |-> description,
      target_date  |-> target_date,
      created_date |-> today,
      completed    |-> FALSE ]

Ids(its) == { its[i].id : i \in 1..Len(its) }

MaxOf(S) == IF S = {} THEN 0 ELSE CHOOSE m \in S : \A n \in S : n <= m

\* Before with ties in Completion mode broken by id, highest first.
Before_ties_by_id(a, b, sm) ==
    CASE sm = "CreatedDate" -> DateLess(b.created_date, a.created_date)
      [] sm = "TargetDate"  -> DateLess(a.target_date, b.target_date)
      [] sm = "Completion"  -> \/ ~a.completed /\ b.completed
                               \/ a.completed = b.completed /\ a.id > b.id

\* The comparators of sort_items: TRUE when a sorts strictly before b.
Before(a, b, sm) ==
    CASE sm = "CreatedDate" -> DateLess(b.created_date, a.created_date)
      [] sm = "TargetDate"  -> DateLess(a.target_date, b.target_date)
      [] sm = "Completion"  -> ~a.completed /\ b.completed

\* One step of the stable sort: x, which followed every element of sorted,
\* goes before the first element it sorts strictly before.
RECURSIVE InsertStable(_, _, _)
InsertStable(sorted, x, sm) ==
    IF sorted = <<>> THEN <<x>>
    ELSE IF Before(x, Head(sorted), sm) THEN <<x>> \o sorted
    ELSE <<Head(sorted)>> \o InsertStable(Tail(sorted), x, sm)

RECURSIVE StableSort(_, _)
StableSort(its, sm) ==
    IF its = <<>> THEN <<>>
    ELSE InsertStable(StableSort(SubSeq(its, 1, Len(its) - 1), sm),
                      its[Len(its)], sm)

\* sort_items as an ascending sort followed by a reversal.
sort_items_reversed(its, sm) ==
    [ i \in 1..Len(its) |-> StableSort(its, sm)[Len(its) + 1 - i] ]

\* App::sort_items: slice::sort_by (stable) with the active mode's comparator.
sort_items(its, sm) == StableSort(its, sm)

\* RemoveAt with the index ignored: the first task is removed.
RemoveFirst(its, i) == Tail(its)

\* self.items.remove(i), i a 0-based index inside the list.
RemoveAt(its, i) == SubSeq(its, 1, i) \o SubSeq(its, i + 2, Len(its))

\* ------------------------------------------------------------------ the file

\* A record of todos.json: the dates are written as text.
SerializeItem(t) ==
    [ id           |-> t.id,
      title        |-> t.title,
      description  |-> t.description,
      target_date  |-> format(t.target_date),
      created_date |-> format(t.created_date),
      completed    |-> t.completed ]

Serialize(its) == [ i \in 1..Len(its) |-> SerializeItem(its[i]) ]

DeserializeItem(r) ==
    [ id           |-> r.id,
      title        |-> r.title,
      description  |-> r.description,
      target_date  |-> Unwrap(parse_from_str(r.target_date)),
      created_date |-> Unwrap(parse_from_str(r.created_date)),
      completed    |-> r.completed ]

\* serde_json::from_str::<Vec<TodoItem>>: Some(items), or None when a record
\* does not deserialize.
Deserialize(recs) ==
    IF \A i \in 1..Len(recs) :
          IsSome(parse_from_str(recs[i].target_date))
          /\ IsSome(parse_from_str(recs[i].created_date))
    THEN Some([ i \in 1..Len(recs) |-> DeserializeItem(recs[i]) ])
    ELSE None

\* The states of todos.json: absent, present and unreadable, present and not
\* a JSON list of tasks, or a list of task records.
FileMissing == [ kind |-> "missing", tasks |-> <<>> ]

FileUnreadable == [ kind |-> "unreadable", tasks |-> <<>> ]

FileGarbage == [ kind |-> "garbage", tasks |-> <<>> ]

FileOf(its) == [ kind |-> "tasks", tasks |-> Serialize(its) ]

InitFiles == { FileMissing, FileUnreadable, FileGarbage }

\* App::load_tasks: the list the file yields (empty when the file is
\* missing, unreadable or malformed).
load_tasks(f) ==
    IF f.kind = "tasks" /\ IsSome(Deserialize(f.tasks))
    THEN Unwrap(Deserialize(f.tasks))
    ELSE <<>>

\* load_next_id counting the tasks instead of taking the highest id.
load_next_id_by_count(f) == Len(load_tasks(f)) + 1

\* The id counter load_tasks leaves: one more than the highest id loaded.
load_next_id(f) == MaxOf(Ids(load_tasks(f))) + 1

\* App::save_tasks: the file after the call, for write outcome w.
save_tasks(its, old, w) ==
    CASE w = "ok"     -> FileOf(its)
      [] w = "failed" -> old
      [] w = "torn"   -> FileGarbage

\* ------------------------------------------------------------------ state

VARIABLES
    items,           \* App.items: the tasks, in display order
    selected,        \* App.state.selected(): Option of a 0-based row index
    mode,            \* App.mode: "Normal", "AddTask" or "EditTask"
    form,            \* App.form: title, description, target_date, field_index
    sort_mode,       \* App.sort_mode
    next_id,         \* App.next_id
    edit_id,         \* App.edit_id: Option of a task id
    file,            \* todos.json
    scenario,        \* the scenario this behaviour explores
    run_ids,         \* history: the ids loaded or assigned by this process
    ever_ids         \* history: the ids assigned by this or an earlier process

vars ==
    << items, selected, mode, form, sort_mode, next_id, edit_id, file,
       scenario, run_ids, ever_ids >>


\* TaskForm::default() and TaskForm::clear.
EmptyForm ==
    [ title |-> "", description |-> "", target_date |-> "", field_index |-> 0 ]

\* The write outcomes explored in the current state: a write is explored
\* failing only while the file holds the list as it was before the key, so
\* that the file is never more than one failed write behind.
Writes == IF file = FileOf(items) THEN WriteResults(scenario) ELSE { "ok" }

\* The prefixes of the sample texts of form field f.
Samples(f) ==
    CASE f = 0 -> TitleSamples(scenario)
      [] f = 1 -> DescSamples(scenario)
      [] OTHER -> DateSamples(scenario)

Typable(f, text) ==
    \E smp \in Samples(f) : Len(text) <= Len(smp) /\ SubSeq(smp, 1, Len(text)) = text

Chars == { "a", "b", "0", "1", "2", "-" }

\* TaskForm::current_field_mut.
CurrentField ==
    CASE form.field_index = 0 -> "title"
      [] form.field_index = 1 -> "description"
      [] form.field_index = 2 -> "target_date"
      [] OTHER -> "title"

\* App::new run against todos.json as it is: the fields of a new App after
\* load_tasks.
Init ==
    /\ scenario \in Scenarios
    /\ file \in InitFiles
    /\ items = load_tasks(file)
    /\ next_id = load_next_id(file)
    /\ selected = Some(0)
    /\ mode = "Normal"
    /\ form = EmptyForm
    /\ sort_mode = "CreatedDate"
    /\ edit_id = None
    /\ run_ids = Ids(load_tasks(file))
    /\ ever_ids = {}

\* ------------------------------------------------------------------ Normal mode

\* Restart with a file that does not load replaced by an empty list.
Restart_rewrites_file ==
    /\ mode = "Normal"
    /\ items' = load_tasks(file)
    /\ next_id' = load_next_id(file)
    /\ selected' = Some(0)
    /\ mode' = "Normal"
    /\ form' = EmptyForm
    /\ sort_mode' = "CreatedDate"
    /\ edit_id' = None
    /\ run_ids' = Ids(load_tasks(file))
    /\ file' = IF file.kind = "tasks" THEN file ELSE FileOf(<<>>)
    /\ UNCHANGED << scenario, ever_ids >>

\* 'q' or Esc: run returns; the next process starts with App::new.
Restart ==
    /\ mode = "Normal"
    /\ items' = load_tasks(file)
    /\ next_id' = load_next_id(file)
    /\ selected' = Some(0)
    /\ mode' = "Normal"
    /\ form' = EmptyForm
    /\ sort_mode' = "CreatedDate"
    /\ edit_id' = None
    /\ run_ids' = Ids(load_tasks(file))
    /\ UNCHANGED << file, scenario, ever_ids >>

\* Down: App::next_row.
next_row ==
    /\ mode = "Normal"
    /\ selected' =
          IF items = <<>> THEN selected
          ELSE IF IsSome(selected) THEN Some((Unwrap(selected) + 1) % Len(items))
          ELSE Some(0)
    /\ UNCHANGED << items, mode, form, sort_mode, next_id, edit_id, file,
                    scenario, run_ids, ever_ids >>

\* previous_row stopping at the first row.
previous_row_no_wrap ==
    /\ mode = "Normal"
    /\ selected' =
          IF items = <<>> THEN selected
          ELSE IF IsSome(selected)
               THEN (IF Unwrap(selected) = 0 THEN Some(0)
                     ELSE Some(Unwrap(selected) - 1))
          ELSE Some(0)
    /\ UNCHANGED << items, mode, form, sort_mode, next_id, edit_id, file,
                    scenario, run_ids, ever_ids >>

\* Up: App::previous_row.
previous_row ==
    /\ mode = "Normal"
    /\ selected' =
          IF items = <<>> THEN selected
          ELSE IF IsSome(selected)
               THEN (IF Unwrap(selected) = 0 THEN Some(Len(items) - 1)
                     ELSE Some(Unwrap(selected) - 1))
          ELSE Some(0)
    /\ UNCHANGED << items, mode, form, sort_mode, next_id, edit_id, file,
                    scenario, run_ids, ever_ids >>

\* toggle_completed undoing the flip when the write did not succeed.
toggle_completed_rolls_back ==
    /\ mode = "Normal"
    /\ IF IsSome(selected) /\ Unwrap(selected) < Len(items)
       THEN \E w \in Writes :
              LET i == Unwrap(selected) + 1
                  toggled == [items EXCEPT ![i].completed = ~items[i].completed]
              IN  /\ items' = IF w = "ok" THEN toggled ELSE items
                  /\ file' = save_tasks(toggled, file, w)
       ELSE UNCHANGED << items, file >>
    /\ UNCHANGED << selected, mode, form, sort_mode, next_id, edit_id,
                    scenario, run_ids, ever_ids >>

\* Space: App::toggle_completed.
toggle_completed ==
    /\ mode = "Normal"
    /\ IF IsSome(selected) /\ Unwrap(selected) < Len(items)
       THEN \E w \in Writes :
              LET i == Unwrap(selected) + 1
                  toggled == [items EXCEPT ![i].completed = ~items[i].completed]
              IN  /\ items' = toggled
                  /\ file' = save_tasks(toggled, file, w)
       ELSE UNCHANGED << items, file >>
    /\ UNCHANGED << selected, mode, form, sort_mode, next_id, edit_id,
                    scenario, run_ids, ever_ids >>

\* delete_selected with the selection left where it was.
delete_selected_no_clamp ==
    /\ mode = "Normal"
    /\ IF IsSome(selected) /\ Unwrap(selected) < Len(items)
       THEN \E w \in Writes :
              /\ items' = RemoveAt(items, Unwrap(selected))
              /\ file' = save_tasks(RemoveAt(items, Unwrap(selected)), file, w)
       ELSE UNCHANGED << items, file >>
    /\ UNCHANGED << selected, mode, form, sort_mode, next_id, edit_id, scenario,
                    run_ids, ever_ids >>

\* delete_selected with the id counter recomputed from the tasks left.
delete_selected_recount ==
    /\ mode = "Normal"
    /\ IsSome(selected) /\ Unwrap(selected) < Len(items)
    /\ \E w \in Writes :
          LET removed == RemoveAt(items, Unwrap(selected))
          IN  /\ items' = removed
              /\ selected' =
                    IF removed = <<>> THEN None
                    ELSE IF Unwrap(selected) >= Len(removed)
                         THEN Some(Len(removed) - 1)
                    ELSE selected
              /\ file' = save_tasks(removed, file, w)
              /\ next_id' = MaxOf(Ids(removed)) + 1
    /\ UNCHANGED << mode, form, sort_mode, edit_id, scenario, run_ids, ever_ids >>

\* 'd': App::delete_selected.
delete_selected ==
    /\ mode = "Normal"
    /\ IF IsSome(selected) /\ Unwrap(selected) < Len(items)
       THEN \E w \in Writes :
              LET removed == RemoveAt(items, Unwrap(selected))
              IN  /\ items' = removed
                  /\ selected' =
                        IF removed = <<>> THEN None
                        ELSE IF Unwrap(selected) >= Len(removed)
                             THEN Some(Len(removed) - 1)
                        ELSE selected
                  /\ file' = save_tasks(removed, file, w)
       ELSE UNCHANGED << items, selected, file >>
    /\ UNCHANGED << mode, form, sort_mode, next_id, edit_id, scenario,
                    run_ids, ever_ids >>

\* start_add_task with the edit marker left as it was.
start_add_task_keeps_marker ==
    /\ mode = "Normal"
    /\ mode' = "AddTask"
    /\ form' = EmptyForm
    /\ UNCHANGED << items, selected, sort_mode, next_id, edit_id, file,
                    scenario, run_ids, ever_ids >>

\* start_add_task reachable from every mode.
start_add_task_any_mode ==
    /\ mode' = "AddTask"
    /\ form' = EmptyForm
    /\ edit_id' = None
    /\ UNCHANGED << items, selected, sort_mode, next_id, file,
                    scenario, run_ids, ever_ids >>

\* 'n': App::start_add_task.
start_add_task ==
    /\ mode = "Normal"
    /\ mode' = "AddTask"
    /\ form' = EmptyForm
    /\ edit_id' = None
    /\ UNCHANGED << items, selected, sort_mode, next_id, file,
                    scenario, run_ids, ever_ids >>

\* start_edit_task opening an empty form when no task is selected.
start_edit_task_without_target ==
    /\ mode = "Normal"
    /\ IF IsSome(selected) /\ Unwrap(selected) < Len(items)
       THEN LET item == items[Unwrap(selected) + 1]
            IN  /\ mode' = "EditTask"
                /\ edit_id' = Some(item.id)
                /\ form' = [ title       |-> item.title,
                             description |-> item.description,
                             target_date |-> format(item.target_date),
                             field_index |-> 0 ]
       ELSE /\ mode' = "EditTask"
            /\ edit_id' = None
            /\ form' = EmptyForm
    /\ UNCHANGED << items, selected, sort_mode, next_id, file,
                    scenario, run_ids, ever_ids >>

\* 'e': App::start_edit_task.
start_edit_task ==
    /\ mode = "Normal"
    /\ IF IsSome(selected) /\ Unwrap(selected) < Len(items)
       THEN LET item == items[Unwrap(selected) + 1]
            IN  /\ mode' = "EditTask"
                /\ edit_id' = Some(item.id)
                /\ form' = [ title       |-> item.title,
                             description |-> item.description,
                             target_date |-> format(item.target_date),
                             field_index |-> 0 ]
       ELSE UNCHANGED << mode, edit_id, form >>
    /\ UNCHANGED << items, selected, sort_mode, next_id, file,
                    scenario, run_ids, ever_ids >>

\* SetSort without the call of sort_items.
SetSort_mode_only(sm) ==
    /\ mode = "Normal"
    /\ sort_mode' = sm
    /\ UNCHANGED << items, selected, mode, form, next_id, edit_id, file,
                    scenario, run_ids, ever_ids >>

\* 's', 't', 'c': the sort mode is set and sort_items runs.
SetSort(sm) ==
    /\ mode = "Normal"
    /\ sort_mode' = sm
    /\ items' = sort_items(items, sm)
    /\ UNCHANGED << selected, mode, form, next_id, edit_id, file,
                    scenario, run_ids, ever_ids >>

\* ------------------------------------------------------------------ form modes

InForm == mode \in { "AddTask", "EditTask" }

\* cancel_form with the form left as typed.
cancel_form_keeps_form ==
    /\ InForm
    /\ mode' = "Normal"
    /\ edit_id' = None
    /\ UNCHANGED << items, selected, form, sort_mode, next_id, file,
                    scenario, run_ids, ever_ids >>

\* Esc: App::cancel_form.
cancel_form ==
    /\ InForm
    /\ mode' = "Normal"
    /\ form' = EmptyForm
    /\ edit_id' = None
    /\ UNCHANGED << items, selected, sort_mode, next_id, file,
                    scenario, run_ids, ever_ids >>

\* The index (1-based) of the first task with this id, 0 when there is none:
\* self.items.iter_mut().find(|i| i.id == id).
FindId(its, id) ==
    IF id \in Ids(its)
    THEN CHOOSE i \in 1..Len(its) :
            its[i].id = id /\ \A j \in 1..(i - 1) : its[j].id # id
    ELSE 0

\* submit_form, AddTask arm: the task is pushed and saved, then the list is
\* sorted.
SubmitAdd(target_date) ==
    /\ next_id <= MaxIdOf(scenario)
    /\ \E today \in Days(scenario), w \in Writes :
          LET item   == NewItem(next_id, form.title, form.description, target_date, today)
              pushed == Append(items, item)
          IN  /\ items' = sort_items(pushed, sort_mode)
              /\ file' = save_tasks(pushed, file, w)
    /\ next_id' = next_id + 1
    /\ run_ids' = run_ids \cup { next_id }
    /\ ever_ids' = ever_ids \cup { next_id }

\* SubmitEdit putting a new TodoItem in the place of the edited task.
SubmitEdit_replaces_item(target_date) ==
    /\ IF IsSome(edit_id) /\ FindId(items, Unwrap(edit_id)) # 0
       THEN \E w \in Writes, today \in Days(scenario) :
              LET i      == FindId(items, Unwrap(edit_id))
                  edited == [items EXCEPT ![i] =
                                NewItem(items[i].id, form.title, form.description,
                                        target_date, today)]
              IN  /\ items' = sort_items(edited, sort_mode)
                  /\ file' = save_tasks(edited, file, w)
       ELSE /\ items' = sort_items(items, sort_mode)
            /\ UNCHANGED file
    /\ UNCHANGED << next_id, run_ids, ever_ids >>

\* submit_form, EditTask arm: the task with the edit id is updated and saved,
\* then the list is sorted.
SubmitEdit(target_date) ==
    /\ IF IsSome(edit_id) /\ FindId(items, Unwrap(edit_id)) # 0
       THEN \E w \in Writes :
              LET i      == FindId(items, Unwrap(edit_id))
                  edited == [items EXCEPT ![i].title = form.title,
                                          ![i].description = form.description,
                                          ![i].target_date = target_date]
              IN  /\ items' = sort_items(edited, sort_mode)
                  /\ file' = save_tasks(edited, file, w)
       ELSE /\ items' = sort_items(items, sort_mode)
            /\ UNCHANGED file
    /\ UNCHANGED << next_id, run_ids, ever_ids >>

\* submit_form with sort_items moved out of the date check.
submit_form_sorts_always ==
    /\ InForm
    /\ LET parsed == parse_from_str(form.target_date)
       IN  IF IsSome(parsed)
           THEN IF mode = "AddTask" THEN SubmitAdd(Unwrap(parsed))
                ELSE SubmitEdit(Unwrap(parsed))
           ELSE /\ items' = sort_items(items, sort_mode)
                /\ UNCHANGED << file, next_id, run_ids, ever_ids >>
    /\ mode' = "Normal"
    /\ UNCHANGED << selected, form, sort_mode, edit_id, scenario >>

\* Enter: App::submit_form.
submit_form ==
    /\ InForm
    /\ LET parsed == parse_from_str(form.target_date)
       IN  IF IsSome(parsed)
           THEN IF mode = "AddTask" THEN SubmitAdd(Unwrap(parsed))
                ELSE SubmitEdit(Unwrap(parsed))
           ELSE UNCHANGED << items, file, next_id, run_ids, ever_ids >>
    /\ mode' = "Normal"
    /\ UNCHANGED << selected, form, sort_mode, edit_id, scenario >>

\* Tab: TaskForm::next_field.
next_field ==
    /\ InForm
    /\ form' = [form EXCEPT !.field_index = (form.field_index + 1) % 3]
    /\ UNCHANGED << items, selected, mode, sort_mode, next_id, edit_id, file,
                    scenario, run_ids, ever_ids >>

\* BackTab: TaskForm::prev_field.
prev_field ==
    /\ InForm
    /\ form' = [form EXCEPT !.field_index =
                    IF form.field_index = 0 THEN 2 ELSE form.field_index - 1]
    /\ UNCHANGED << items, selected, mode, sort_mode, next_id, edit_id, file,
                    scenario, run_ids, ever_ids >>

\* Char(c): the character is pushed onto the current field.
InsertChar(c) ==
    /\ InForm
    /\ Typable(form.field_index, form[CurrentField] \o c)
    /\ form' = [form EXCEPT ![CurrentField] = @ \o c]
    /\ UNCHANGED << items, selected, mode, sort_mode, next_id, edit_id, file,
                    scenario, run_ids, ever_ids >>

\* Backspace: the last character of the current field is popped, if any.
Backspace ==
    /\ InForm
    /\ form' = [form EXCEPT ![CurrentField] =
                    IF @ = "" THEN "" ELSE SubSeq(@, 1, Len(@) - 1)]
    /\ UNCHANGED << items, selected, mode, sort_mode, next_id, edit_id, file,
                    scenario, run_ids, ever_ids >>

\* ------------------------------------------------------------------ specification

Next ==
    \/ Restart
    \/ next_row
    \/ previous_row
    \/ toggle_completed
    \/ delete_selected
    \/ start_add_task
    \/ start_edit_task
    \/ \E sm \in { "CreatedDate", "TargetDate", "Completion" } : SetSort(sm)
    \/ cancel_form
    \/ submit_form
    \/ next_field
    \/ prev_field
    \/ \E c \in Chars : InsertChar(c)
    \/ Backspace

Spec == Init /\ [][Next]_vars

\* ------------------------------------------------------------------ sorting three tasks

\* The two tasks of the file the scenario "sort" starts from: created on
\* different days, with different target dates, each completed or not.
SortTask(id, done) ==
    [ id           |-> id,
      title        |-> "",
      description  |-> "",
      target_date  |-> IF id = 1 THEN <<1, 1, 1>> ELSE <<1, 1, 2>>,
      created_date |-> IF id = 1 THEN <<2025, 1, 1>> ELSE <<2025, 1, 2>>,
      completed    |-> done ]

\* todos.json as an earlier process left it: the two tasks in either order.
SortFiles ==
    { FileOf(<< SortTask(a, da), SortTask(3 - a, db) >>) :
        <<a, da, db>> \in (1..2) \X BOOLEAN \X BOOLEAN }

\* App::new over one of these files.
SortInit ==
    /\ scenario = "sort"
    /\ file \in SortFiles
    /\ items = load_tasks(file)
    /\ next_id = load_next_id(file)
    /\ selected = Some(0)
    /\ mode = "Normal"
    /\ form = EmptyForm
    /\ sort_mode = "CreatedDate"
    /\ edit_id = None
    /\ run_ids = Ids(load_tasks(file))
    /\ ever_ids = Ids(load_tasks(file))

\* The keys explored from there: the sort keys, Space, Down, Up, and the
\* keys that create a task or submit an edit.
SortNext ==
    \/ \E sm \in { "CreatedDate", "TargetDate", "Completion" } : SetSort(sm)
    \/ toggle_completed
    \/ next_row
    \/ previous_row
    \/ start_add_task
    \/ start_edit_task
    \/ prev_field
    \/ \E c \in Chars : InsertChar(c)
    \/ submit_form

SortSpec == SortInit /\ [][SortNext]_vars

\* ------------------------------------------------------------------ claims

\* The selection points at a task.
ValidSel == IsSome(selected) /\ Unwrap(selected) < Len(items)

\* The form's date text parses.
DateParses == IsSome(parse_from_str(form.target_date))

\* An Enter whose date text parses, in AddTask mode: a task is created.
Created == submit_form /\ mode = "AddTask" /\ DateParses

\* C1: an Enter in AddTask or EditTask mode whose date text does not parse
\* keeps the form open: the mode and the form's three texts and field index
\* are as before.
C1_InvalidSubmitKeepsFormOpen ==
    [][ (submit_form /\ ~DateParses) => (mode' = mode /\ form' = form) ]_vars

\* C2: in AddTask or EditTask mode every key other than an Enter whose date
\* text parses leaves the tasks, the id counter, the selection, the sort
\* mode and the file as they were.
C2_FormKeysLeaveStore ==
    [][ (InForm /\ ~(submit_form /\ DateParses))
            => UNCHANGED << items, next_id, selected, sort_mode, file >> ]_vars

\* C2 witness: an Enter with a date text that does not parse has been handled
\* over a non-empty list (the text is still in the form, the mode is Normal).
C2_Witness ==
    /\ mode = "Normal"
    /\ form.target_date # ""
    /\ ~DateParses
    /\ items # <<>>

IdsDistinct ==
    \A i, j \in 1..Len(items) : i # j => items[i].id # items[j].id

\* C3: within one process the next id is one more than the highest id loaded
\* or assigned so far (1 when there is none), a created task receives that
\* id, which no task in the list has, and the ids in the list are pairwise
\* distinct.
C3_FreshIds ==
    /\ [](/\ IdsDistinct
          /\ Ids(items) \subseteq run_ids
          /\ next_id = MaxOf(run_ids) + 1)
    /\ [][ /\ Created =>
                /\ next_id \notin Ids(items)
                /\ Len(items') = Len(items) + 1
                /\ Ids(items') = Ids(items) \cup { next_id }
                /\ \A id \in run_ids : id < next_id
           /\ Restart => next_id' = MaxOf(Ids(items')) + 1 ]_vars

\* C3 witness: two tasks were created, the second after the first.
C3_Witness == Ids(items) = { 1, 2 } /\ next_id = 3

\* C4 as claimed: across deletions and restarts the id counter never
\* decreases and a created task never receives an id that was assigned
\* before.
C4_NeverReusedAcrossRestarts ==
    [][ /\ next_id' >= next_id
        /\ Created => next_id \notin ever_ids ]_vars

\* C4 as amended: within one process the id counter never decreases and a
\* created task never receives an id loaded or assigned by this process; a
\* restart sets the counter to one more than the highest id in the loaded
\* list, which no loaded task has.
C4_NeverReusedWithinRun ==
    [][ /\ ~Restart =>
              /\ next_id' >= next_id
              /\ Created => next_id \notin run_ids
        /\ Restart =>
              /\ next_id' = MaxOf(Ids(items')) + 1
              /\ next_id' \notin Ids(items') ]_vars

\* C4 witness: two ids were assigned and one of the two tasks was deleted; the
\* counter stands past both.
C4_Witness == Len(items) = 1 /\ run_ids = { 1, 2 } /\ next_id = 3

\* A key that writes the file: a toggle or a deletion of a selected task, or
\* an Enter whose date text parses.
Mutation ==
    \/ toggle_completed /\ ValidSel
    \/ delete_selected /\ ValidSel
    \/ submit_form /\ DateParses

\* C5: when a toggle, a deletion or a successful submit returns and the write
\* succeeded, the file holds the tasks of the list in the order of the list.
C5_FileHoldsList ==
    [][ (Mutation /\ WriteResults(scenario) = { "ok" }) => file' = FileOf(items') ]_vars

\* The list is in the order of sort mode sm: no task sorts strictly before a
\* task that precedes it.
Sorted(its, sm) ==
    \A i, j \in 1..Len(its) : i < j => ~Before(its[j], its[i], sm)

\* C6: in every reachable state the list is in the order of the active sort
\* mode.
C6_AlwaysSorted == Sorted(items, sort_mode)

\* C7 as claimed: the selection is an index inside the list when the list is
\* not empty, and None when it is empty.
C7_SelectionInRange ==
    IF items = <<>> THEN selected = None ELSE ValidSel

\* C7 as amended: a selected index is inside the list, or is 0 over an empty
\* list; None is possible over a list that is not empty.
C7_SelectionBounded ==
    IsSome(selected) =>
        \/ Unwrap(selected) < Len(items)
        \/ Unwrap(selected) = 0 /\ items = <<>>

\* C7 witness: the only task was deleted, which left no selection, and a task
\* was created after it.
C7_Witness == selected = None /\ items # <<>>

Min(a, b) == IF a < b THEN a ELSE b

C9_ExitClearsForm ==
    [][ (cancel_form \/ submit_form)
            => (mode' = "Normal" /\ form' = EmptyForm /\ edit_id' = None) ]_vars

\* C9 as amended: every Esc and every Enter in a form mode leaves the mode
\* Normal; Esc clears the form and the edit marker, Enter leaves the form
\* and the edit marker as they were.
C9_ExitLeavesNormal ==
    [][ /\ cancel_form => (mode' = "Normal" /\ form' = EmptyForm /\ edit_id' = None)
        /\ submit_form => (mode' = "Normal" /\ form' = form /\ edit_id' = edit_id) ]_vars

\* C9 witness: an Enter in EditTask mode was handled: the mode is Normal and
\* the form and the edit marker still hold what was submitted.
C9_Witness == mode = "Normal" /\ IsSome(edit_id) /\ form.target_date # ""

\* C10: the mode is always one of the three, and it changes only from Normal
\* to AddTask ('n'), from Normal to EditTask ('e' with a task selected), and
\* from AddTask or EditTask to Normal (Esc or Enter).
C10_ModeTransitions ==
    /\ [](mode \in { "Normal", "AddTask", "EditTask" })
    /\ [][ mode' # mode =>
              \/ mode = "Normal" /\ mode' = "AddTask" /\ start_add_task
              \/ mode = "Normal" /\ mode' = "EditTask" /\ start_edit_task /\ ValidSel
              \/ InForm /\ mode' = "Normal" /\ (cancel_form \/ submit_form) ]_vars

\* C10 witness: two tasks were created through the form (Normal to AddTask
\* and back, twice) and the form is open on one of them.
C10_Witness == mode = "EditTask" /\ Len(items) = 2

\* What a start over a file that does not load must leave.
StartedEmpty ==
    /\ items' = <<>>
    /\ next_id' = 1
    /\ mode' = "Normal"
    /\ file' = file

\* C11: a start with a file that is missing, unreadable or malformed gives
\* an empty list, id counter 1 and mode Normal, and leaves the file as it
\* was; this holds of the first start and of every later one.
C11_StartWithoutTasksFile ==
    /\ file.kind # "tasks" =>
          (items = <<>> /\ next_id = 1 /\ mode = "Normal" /\ file \in InitFiles)
    /\ [](  (mode = "Normal" /\ file.kind # "tasks") =>
               (ENABLED Restart /\ ~ENABLED (Restart /\ ~StartedEmpty)) )
    /\ [][ (Restart /\ file.kind # "tasks") => StartedEmpty ]_vars

\* C11 witness: tasks were created, a write left the file malformed, and the
\* next start gave an empty list and id counter 1 over that file.
C11_Witness ==
    /\ file = FileGarbage
    /\ ever_ids # {}
    /\ items = <<>>
    /\ next_id = 1
    /\ selected = Some(0)

\* item.completed = !item.completed on the task at 0-based index sel.
ToggleAt(its, sel) ==
    [its EXCEPT ![sel + 1].completed = ~its[sel + 1].completed]

\* A toggle of a selected task changes the completed flag of that task and
\* nothing else in the list, leaves the selection, and a second toggle gives
\* back the list as it was.
ToggleFlipsAndFlipsBack ==
    LET sel == Unwrap(selected)
    IN  /\ items' = ToggleAt(items, sel)
        /\ Len(items') = Len(items)
        /\ \A k \in 1..Len(items) :
              /\ items'[k] = IF k = sel + 1
                             THEN [items[k] EXCEPT !.completed = ~items[k].completed]
                             ELSE items[k]
        /\ selected' = selected
        /\ ToggleAt(items', Unwrap(selected')) = items

\* C12: a toggle of a selected task changes only that task's
\* completed flag, and a second toggle restores the list and, the writes
\* succeeding, the file as they were before the first.
C12_ToggleTwiceRestoresFile ==
    [][ (toggle_completed /\ ValidSel /\ WriteResults(scenario) = { "ok" }) =>
            /\ ToggleFlipsAndFlipsBack
            /\ save_tasks(ToggleAt(items', Unwrap(selected')), file', "ok") = file ]_vars

SortModes == { "CreatedDate", "TargetDate", "Completion" }

\* s and t hold the same elements, each as many times.
IsPermutation(s, t) ==
    /\ Len(s) = Len(t)
    /\ \A x \in { s[i] : i \in 1..Len(s) } \cup { t[i] : i \in 1..Len(t) } :
          Cardinality({ i \in 1..Len(s) : s[i] = x })
              = Cardinality({ i \in 1..Len(t) : t[i] = x })

\* What the key of sort mode sm must do.
SortedBy(sm) ==
    /\ sort_mode' = sm
    /\ IsPermutation(items, items')
    /\ Sorted(items', sm)
    /\ UNCHANGED << selected, mode, next_id >>

\* C13: a sort key in Normal mode makes its mode the active one and leaves
\* the list a permutation of the tasks it held, in the order of that mode;
\* the selection, the mode and the id counter are as before.  Stated of
\* every step of a sort key and of what each sort key does in every
\* reachable state, so that a key that wrongly does nothing is a violation.
C13_SetSortOrders ==
    /\ [](mode = "Normal" =>
            \A sm \in SortModes : ENABLED (SetSort(sm) /\ SortedBy(sm)))
    /\ [][ \A sm \in SortModes : SetSort(sm) => SortedBy(sm) ]_vars

\* C13 witness: three tasks sorted by target date; tasks 1 and 3 have the
\* same target date and task 2 a later one.
C13_Witness ==
    /\ sort_mode = "TargetDate"
    /\ mode = "Normal"
    /\ Len(items) = 3
    /\ items[1].id = 3 /\ items[2].id = 1 /\ items[3].id = 2

\* The ids of the list, in the order of the list.
IdSeq(its) == [ i \in 1..Len(its) |-> its[i].id ]

IndexOf(seq, x) == CHOOSE i \in 1..Len(seq) : seq[i] = x

\* A step that sorts by completion: the 'c' key, or an Enter with a date that
\* parses while the sort mode is Completion.
CompletionSortStep ==
    \/ SetSort("Completion")
    \/ submit_form /\ DateParses /\ sort_mode = "Completion"

\* C14: the sort by completion is stable: two tasks with the same completed
\* flag are in the same relative order after a step that sorts by completion
\* as before the sort (a created task is last before the sort).
C14_CompletionSortStable ==
    [][ CompletionSortStep =>
            LET pre  == IF Created THEN Append(IdSeq(items), next_id) ELSE IdSeq(items)
                post == IdSeq(items')
                done(id) == items'[IndexOf(post, id)].completed
            IN  /\ Len(post) = Len(pre)
                /\ \A a, b \in Ids(items') :
                      (done(a) = done(b) /\ IndexOf(pre, a) < IndexOf(pre, b))
                          => IndexOf(post, a) < IndexOf(post, b) ]_vars

\* C14 witness: three tasks sorted by completion, the two incomplete ones not
\* in the order of their ids, the completed one behind them.
C14_Witness ==
    /\ sort_mode = "Completion"
    /\ Len(items) = 3
    /\ ~items[1].completed /\ ~items[2].completed /\ items[3].completed
    /\ items[1].id > items[2].id

\* C15: a sort key pressed again leaves the list as the first press left it,
\* and sorting a list twice by one mode gives what sorting it once gives.
C15_SortIdempotent ==
    /\ [](\A sm \in SortModes :
            sort_items(sort_items(items, sm), sm) = sort_items(items, sm))
    /\ [][ \A sm \in SortModes :
              SetSort(sm) =>
                  /\ items' = sort_items(items, sm)
                  /\ sort_items(items', sm) = items' ]_vars

\* C15 witness: three tasks sorted by creation date, where tasks 2 and 3,
\* created on the same day, are in the order an earlier sort by target date
\* left them in.
C15_Witness ==
    /\ sort_mode = "CreatedDate"
    /\ Len(items) = 3
    /\ items[1].id = 3 /\ items[2].id = 2 /\ items[3].id = 1

\* C16: an Enter in EditTask mode with a date that parses replaces the title,
\* the description and the target date of the task with the edit id and
\* nothing else: that task's id, creation date and completed flag, every
\* other task, the number of tasks and the id counter are as before (the
\* order may change).
C16_EditReplacesOnlyFormFields ==
    [][ (submit_form /\ mode = "EditTask" /\ DateParses) =>
            /\ IsSome(edit_id)
            /\ Len(items') = Len(items)
            /\ Ids(items') = Ids(items)
            /\ next_id' = next_id
            /\ \A k \in 1..Len(items) :
                  LET old == items[k]
                      new == items'[FindId(items', old.id)]
                  IN  new = IF old.id = Unwrap(edit_id)
                            THEN [old EXCEPT
                                    !.title = form.title,
                                    !.description = form.description,
                                    !.target_date = Unwrap(parse_from_str(form.target_date))]
                            ELSE old ]_vars

\* C16 witness: one of two tasks was edited with a date retyped as
\* "0001-01-1" and the edit was submitted.
C16_Witness ==
    /\ mode = "Normal"
    /\ IsSome(edit_id)
    /\ form.target_date = "0001-01-1"
    /\ Len(items) = 2
    /\ items[FindId(items, Unwrap(edit_id))].target_date = <<1, 1, 1>>

\* C17: Space, 'd' and 'e' without a task under the selection, and Up and
\* Down over an empty list, leave every field of the App and the file as
\* they were.
C17_AbsentTargetNoOp ==
    [][ ( \/ (toggle_completed \/ delete_selected \/ start_edit_task) /\ ~ValidSel
          \/ (next_row \/ previous_row) /\ items = <<>> )
            => UNCHANGED << items, selected, mode, form, sort_mode, next_id,
                            edit_id, file >> ]_vars

\* C17 witness: the only task was deleted, which left no selection, and a
\* second task was created: the list is not empty and nothing is selected.
C17_Witness ==
    /\ mode = "Normal"
    /\ selected = None
    /\ Len(items) = 1
    /\ next_id = 3

\* What Down and Up must do to a selection i over n rows.
RowMoved(i, n, delta) ==
    /\ selected' = Some((i + delta) % n)
    /\ UNCHANGED << items, mode, file >>

\* C18: over a list that is not empty, Down moves a selection i to
\* (i + 1) mod len and Up to (i - 1) mod len, an Up after a Down gives back i,
\* and neither changes the tasks, the mode or the file.  Stated of what
\* each key can do in every reachable state, so that a key that wrongly
\* does nothing is a violation.
C18_RowsWrap ==
    (mode = "Normal" /\ ValidSel) =>
        LET i == Unwrap(selected)
            n == Len(items)
        IN  /\ ENABLED next_row
            /\ ~ENABLED (next_row /\ ~RowMoved(i, n, 1))
            /\ ENABLED previous_row
            /\ ~ENABLED (previous_row /\ ~RowMoved(i, n, -1))
            /\ (((i + 1) % n) - 1) % n = i

\* C18 witness: the last of three rows is selected.
C18_Witness == mode = "Normal" /\ Len(items) = 3 /\ selected = Some(2)

\* The file after the step does not hold the tasks of the list: the write
\* of the step did not succeed.
WriteFailed ==
    ~(file'.kind = "tasks" /\ IsPermutation(file'.tasks, Serialize(items')))

\* What a key that writes the file does to the App, whatever the write did.
MutationTakesEffect ==
    /\ (toggle_completed /\ ValidSel) =>
          /\ items' = ToggleAt(items, Unwrap(selected))
          /\ UNCHANGED << selected, mode >>
    /\ (delete_selected /\ ValidSel) =>
          /\ items' = RemoveAt(items, Unwrap(selected))
          /\ selected' = IF items' = <<>> THEN None
                         ELSE Some(Min(Unwrap(selected), Len(items') - 1))
          /\ mode' = mode
    /\ (submit_form /\ DateParses) =>
          /\ mode' = "Normal"
          /\ IF mode = "AddTask"
             THEN Ids(items') = Ids(items) \cup { next_id } /\ next_id' = next_id + 1
             ELSE Ids(items') = Ids(items) /\ next_id' = next_id

\* C19 as claimed: a write that fails during a toggle, a deletion or a
\* successful submit leaves the file with its previous content, and the
\* change to the list and the mode happens as when the write succeeds.
C19_FailedWriteKeepsFile ==
    [][ Mutation => (MutationTakesEffect /\ (WriteFailed => file' = file)) ]_vars

\* C19 as amended: the change to the list and the mode happens whatever the
\* write did; a write that fails leaves the file with its previous content
\* or, when it fails after the file was truncated, malformed.
C19_FailedWriteSwallowed ==
    [][ Mutation =>
            /\ MutationTakesEffect
            /\ WriteFailed => file' \in { file, FileGarbage } ]_vars

\* C19 witness: the write of the second task's creation left the file
\* malformed, and both tasks are in the list.
C19_Witness == file = FileGarbage /\ Len(items) = 2 /\ mode = "Normal"

\* C20: in EditTask mode the edit id is the id of exactly one task of the
\* list; in AddTask mode there is no edit id.
C20_EditMarkerMatchesMode ==
    /\ mode = "EditTask" =>
          /\ IsSome(edit_id)
          /\ Cardinality({ k \in 1..Len(items) : items[k].id = Unwrap(edit_id) }) = 1
    /\ mode = "AddTask" => edit_id = None

\* C20 witness: the form is open on the second of two tasks and the
\* description field is active.
C20_Witness ==
    /\ mode = "EditTask"
    /\ Len(items) = 2
    /\ edit_id = Some(items[2].id)
    /\ form.field_index = 1

====
